---- MODULE Spec2Model ----
(***************************************************************************)
(* A model of cli-plugins/plugin/plugin.go: the entry point of a Docker    *)
(* CLI plugin.  One behaviour is one process run: Run constructs the CLI,  *)
(* runPlugin assembles the command tree, installs the deferred client      *)
(* initializer on the plugin command, dispatches on the argument vector    *)
(* and executes; Run then maps the returned error to output and an exit    *)
(* code.                                                                   *)
(***************************************************************************)
EXTENDS Integers, Sequences, FiniteSets, TLC

\* ------------------------------------------------------------- bounds

\* Longest argument vector (os.Args[1:]) explored.
MaxArgs == 3
\* Most connections the plugin's command logic dials through the helper.
MaxDials == 2
\* Largest exit status a structured failure carries.
MaxCode == 3

\* ------------------------------------------------------------- inputs

\* manager.MetadataSubcommandName, the hidden subcommand of line 123.
MetadataSubcommandName == "docker-cli-plugin-metadata"

\* Global flags of the root command that take a separate value token.
ValueFlags == {"--config"}
\* Global flags of the root command that take no value.
BoolFlags == {"-D"}

\* The tokens an argument vector is drawn from.
Tokens == ValueFlags \cup BoolFlags \cup {"/tmp/c", "myplugin", "ls", MetadataSubcommandName}

\* All argument vectors of at most MaxArgs tokens.
ArgVectors == UNION {[1..k -> Tokens] : k \in 0..MaxArgs}

\* The names and aliases a plugin command may carry.
PluginIdentities == {<<"myplugin", {}>>, <<"myplugin", {"ls"}>>, <<"ls", {}>>}

\* The plugin commands makeCmd may return: name, aliases, short description.
PluginCommands ==
    {[name |-> id[1], aliases |-> id[2], Short |-> s] :
        id \in PluginIdentities, s \in {"", "short"}}

\* The Metadata records a plugin author may pass to Run.
Metadatas == {[Vendor |-> "ACME", ShortDescription |-> d] : d \in {"", "desc"}}

\* The re-exec environment variable: <<>> when unset, <<v>> when set to v.
Environments == {<<>>, <<"">>, <<"/opt/wrapper">>}

\* The StatusCode values of a cli.StatusError (a Go int, so signed).
StatusCodes == {0 - 1} \cup (0..MaxCode)

Ok == [kind |-> "ok", msg |-> "", code |-> 0]
StatusError(m, c) == [kind |-> "status", msg |-> m, code |-> c]
OtherError(t) == [kind |-> "other", msg |-> t, code |-> 0]
NoResult == [kind |-> "none", msg |-> "", code |-> 0]

\* What the plugin's own command logic may return.
LogicResults ==
    {Ok} \cup {StatusError(m, c) : m \in {"", "M"}, c \in StatusCodes}
         \cup {OtherError(t) : t \in {"", "boom"}}

\* Errors of the command framework (flag parsing, unknown subcommand).
DispatchErrors == {OtherError("unknown flag or command"), StatusError("usage", 125)}

HelperErr == OtherError("connection helper: cannot resolve")
ClientErr == OtherError("client: cannot construct")
InitErr == OtherError("initialize: cannot load configuration")
BootstrapErr == "cannot construct the CLI"

\* -------------------------------------------------------------- state

VARIABLES
    pc,             \* where the process is
    argv,           \* the argument vector the process was started with
    osArgs,         \* os.Args[1:] as the program holds it
    reexecEnv,      \* the environment's manager.ReexecEnvvar
    plugin,         \* the plugin command returned by makeCmd
    suppliedMeta,   \* the Metadata the caller passed to Run
    callerMeta,     \* the caller's Metadata record as it is now
    metaCopy,       \* <<m>>: the record the metadata subcommand closes over
    shortAtAssembly,\* <<s>>: plugin.Short when the tree was assembled
    hooks,          \* the commands that hold a PersistentPreRunE
    children,       \* the root command's children
    selected,       \* the command the arguments dispatch to
    initCalls,      \* invocations of the deferred client initializer
    helperCalls,    \* GetCommandConnectionHelper calls: <<[cmd, flags]>>
    helperFailed,   \* a helper resolution has failed
    clients,        \* API clients constructed
    logicRan,       \* the plugin's command logic has run
    openHandles,    \* connection handles opened and not released
    result,         \* what runPlugin returned
    stdout,         \* documents written to os.Stdout
    errOut,         \* lines written to dockerCli.Err()
    osStderr,       \* lines written to os.Stderr
    exit            \* <<c>> once the process has exited with code c

vars == <<pc, argv, osArgs, reexecEnv, plugin, suppliedMeta, callerMeta, metaCopy,
          shortAtAssembly, hooks, children, selected, initCalls, helperCalls,
          helperFailed, clients, logicRan, openHandles, result, stdout, errOut,
          osStderr, exit>>

inputVars == <<argv, osArgs, reexecEnv, suppliedMeta, callerMeta>>
treeVars == <<metaCopy, shortAtAssembly, hooks, children>>
bridgeVars == <<initCalls, helperCalls, helperFailed, clients>>
outVars == <<stdout, errOut, osStderr, exit>>

Init ==
    /\ pc = "start"
    /\ argv \in ArgVectors
    /\ osArgs = argv
    /\ reexecEnv \in Environments
    /\ plugin \in PluginCommands
    /\ suppliedMeta \in Metadatas
    /\ callerMeta = suppliedMeta
    /\ metaCopy = <<>>
    /\ shortAtAssembly = <<>>
    /\ hooks = {}
    /\ children = {}
    /\ selected = "none"
    /\ initCalls = 0
    /\ helperCalls = <<>>
    /\ helperFailed = FALSE
    /\ clients = 0
    /\ logicRan = FALSE
    /\ openHandles = 0
    /\ result = NoResult
    /\ stdout = <<>>
    /\ errOut = <<>>
    /\ osStderr = <<>>
    /\ exit = <<>>

\* ------------------------------------------------- withPluginClientConn

\* os.Getenv: the empty string for an unset variable.
Getenv(env) == IF env = <<>> THEN "" ELSE env[1]

ReexecCommandAlwaysDefault(env) == "docker"

\* Lines 62-65: the executable to re-invoke.
ReexecCommand(env) == IF Getenv(env) # "" THEN Getenv(env) ELSE "docker"

RECURSIVE AccumulateFlagsSkipping(_, _)
AccumulateFlagsSkipping(args, name) ==
    IF args = <<>> THEN <<>>
    ELSE IF Head(args) = name THEN AccumulateFlagsSkipping(Tail(args), name)
    ELSE <<Head(args)>> \o AccumulateFlagsSkipping(Tail(args), name)

RECURSIVE AccumulateFlags(_, _)
\* Lines 66-80: the loop over os.Args[1:], which breaks at the first token
\* equal to name and appends every token before it to a fresh slice.
AccumulateFlags(args, name) ==
    IF args = <<>> THEN <<>>
    ELSE IF Head(args) = name THEN <<>>
    ELSE <<Head(args)>> \o AccumulateFlags(Tail(args), name)

\* Line 81: the two tokens appended to the accumulated flags.
TunnelTokens == <<"system", "dial-stdio">>

\* Lines 66-81: the flag list handed to the connection helper.
HelperFlags(args, name) == AccumulateFlags(args, name) \o TunnelTokens

MakeClientIgnoringHelperErr(helperOk, clientOk) ==
    IF clientOk THEN [client |-> TRUE, err |-> <<>>]
    ELSE [client |-> FALSE, err |-> <<ClientErr>>]

\* Lines 83-88: the helper's error is returned with no client; otherwise
\* the client (or the error) of client.NewClientWithOpts is returned.
MakeClient(helperOk, clientOk) ==
    IF ~helperOk THEN [client |-> FALSE, err |-> <<HelperErr>>]
    ELSE IF clientOk THEN [client |-> TRUE, err |-> <<>>]
    ELSE [client |-> FALSE, err |-> <<ClientErr>>]

\* ------------------------------------------------- newMetadataSubcommand

newMetadataSubcommandNoDefault(cmd, meta) == meta

\* Lines 119-121: the by-value copy of meta the subcommand's RunE closes
\* over, its empty ShortDescription replaced by the plugin command's Short.
newMetadataSubcommand(cmd, meta) ==
    IF meta.ShortDescription = "" THEN [meta EXCEPT !.ShortDescription = cmd.Short]
    ELSE meta

\* Lines 126-129: the JSON document of a record, one member per field in
\* declaration order, indented, followed by a newline.
Encode(meta) ==
    [members |-> << <<"Vendor", meta.Vendor>>,
                    <<"ShortDescription", meta.ShortDescription>> >>,
     indent |-> "     ",
     newline |-> TRUE]

\* The value a JSON parser recovers for a field of a document.
Field(doc, key) ==
    LET i == CHOOSE j \in 1..Len(doc.members) : doc.members[j][1] = key
    IN  doc.members[i][2]

MetadataOutputLazy == Encode(newMetadataSubcommand(plugin, callerMeta))

\* Lines 125-130: what RunE of the metadata subcommand writes.
MetadataOutput == Encode(metaCopy[1])

\* ------------------------------------------------------------ dispatch

RECURSIVE ScanGlobal(_, _)
\* The parse of the leading global flags: a value flag consumes the next
\* token, and is an error when it is the last; n tokens are consumed.
ScanGlobal(args, i) ==
    IF i > Len(args) THEN [err |-> FALSE, n |-> Len(args)]
    ELSE IF args[i] \in ValueFlags
         THEN IF i = Len(args) THEN [err |-> TRUE, n |-> i]
              ELSE ScanGlobal(args, i + 2)
    ELSE IF args[i] \in BoolFlags THEN ScanGlobal(args, i + 1)
    ELSE [err |-> FALSE, n |-> i - 1]

\* The global flags the parser consumed: the tokens before the subcommand.
GlobalFlags(args) == SubSeq(args, 1, ScanGlobal(args, 1).n)

\* The child of the root the first positional token names, if any.
Select(args, cmd, kids) ==
    LET n == ScanGlobal(args, 1).n IN
    IF n = Len(args) THEN "root"
    ELSE IF "plugin" \in kids /\ (args[n + 1] = cmd.name \/ args[n + 1] \in cmd.aliases)
         THEN "plugin"
    ELSE IF "metadata" \in kids /\ args[n + 1] = MetadataSubcommandName
         THEN "metadata"
    ELSE "root"

HookOwnerRoot == "root"

\* Lines 22-24: the command the deferred initializer is installed on.
HookOwner == "plugin"

\* The hook an execution of sel runs: that of sel itself, else its parent's.
HookFor(sel) ==
    IF sel \in hooks THEN sel
    ELSE IF "root" \in hooks THEN "root"
    ELSE "none"

\* ----------------------------------------------------------------- Run

ExitCodeNoZeroGuard(r) ==
    IF r.kind = "ok" THEN 0
    ELSE IF r.kind = "status" THEN r.code
    ELSE 1

\* Lines 43-57: the exit code of the process for an outcome of runPlugin.
ExitCode(r) ==
    IF r.kind = "ok" THEN 0
    ELSE IF r.kind = "status" THEN (IF r.code = 0 THEN 1 ELSE r.code)
    ELSE 1

\* cli.StatusError's Error(): the generic text of a structured failure.
ErrorText(r) ==
    IF r.kind = "status" THEN "Status: " \o r.msg \o ", Code: " \o ToString(r.code)
    ELSE r.msg

ErrWritesGeneric(r) == IF r.kind = "ok" THEN <<>> ELSE <<ErrorText(r)>>

\* Lines 43-57: the lines Run prints to dockerCli.Err() for an outcome.
ErrWrites(r) ==
    IF r.kind = "ok" THEN <<>>
    ELSE IF r.kind = "status" THEN (IF r.msg # "" THEN <<r.msg>> ELSE <<>>)
    ELSE <<r.msg>>

\* Lines 35-41: command.NewDockerCli fails (reported on os.Stderr, exit 1)
\* or succeeds, and makeCmd returns the plugin command.
NewDockerCli ==
    /\ pc = "start"
    /\ \E ok \in BOOLEAN :
        IF ok
        THEN /\ pc' = "made"
             /\ UNCHANGED outVars
        ELSE /\ pc' = "exited"
             /\ osStderr' = Append(osStderr, BootstrapErr)
             /\ exit' = <<1>>
             /\ UNCHANGED <<stdout, errOut>>
    /\ UNCHANGED <<inputVars, plugin, treeVars, selected, bridgeVars, logicRan,
                   openHandles, result>>

\* Lines 17-24 with newPluginCommand and newMetadataSubcommand: the tree is
\* assembled and the initializer installed; meta is passed by value.
Assemble ==
    /\ pc = "made"
    /\ pc' = "assembled"
    /\ metaCopy' = <<newMetadataSubcommand(plugin, callerMeta)>>
    /\ shortAtAssembly' = <<plugin.Short>>
    /\ children' = {"plugin", "metadata"}
    /\ hooks' = {HookOwner}
    /\ UNCHANGED <<inputVars, plugin, selected, bridgeVars, logicRan, openHandles,
                   result, outVars>>

\* Lines 26-29 and the dispatch of line 30: a flag error is returned, or
\* the arguments select the plugin, the metadata subcommand or the root.
HandleGlobalFlags ==
    /\ pc = "assembled"
    /\ IF ScanGlobal(osArgs, 1).err
       THEN /\ \E e \in DispatchErrors : result' = e
            /\ pc' = "returned"
            /\ UNCHANGED selected
       ELSE /\ selected' = Select(osArgs, plugin, children)
            /\ pc' = "dispatched"
            /\ UNCHANGED result
    /\ UNCHANGED <<inputVars, plugin, treeVars, bridgeVars, logicRan, openHandles,
                   outVars>>

\* The plugin author's code run by the framework before any hook (an
\* initializer registered with the framework) rewrites plugin.Short.
SetShort ==
    /\ pc = "dispatched"
    /\ plugin.Short # "changed"
    /\ plugin' = [plugin EXCEPT !.Short = "changed"]
    /\ UNCHANGED <<pc, inputVars, treeVars, selected, bridgeVars, logicRan,
                   openHandles, result, outVars>>

\* Lines 22-24 and 60-90: the hook of the selected command runs the client
\* initializer: the helper is resolved for the re-exec command and the
\* accumulated flags, and the client constructed; an error ends execution.
PersistentPreRunE ==
    /\ pc = "dispatched"
    /\ HookFor(selected) # "none"
    /\ \E helperOk, clientOk, restOk \in BOOLEAN :
        LET made == MakeClient(helperOk, clientOk) IN
        /\ initCalls' = initCalls + 1
        /\ helperCalls' = Append(helperCalls,
                                 [cmd |-> ReexecCommand(reexecEnv),
                                  flags |-> HelperFlags(osArgs, plugin.name)])
        /\ helperFailed' = (helperFailed \/ ~helperOk)
        /\ clients' = IF made.client THEN clients + 1 ELSE clients
        /\ IF made.err # <<>>
           THEN /\ result' = made.err[1]
                /\ pc' = "returned"
           ELSE IF restOk
           THEN /\ pc' = "ready"
                /\ UNCHANGED result
           ELSE /\ result' = InitErr
                /\ pc' = "returned"
    /\ UNCHANGED <<inputVars, plugin, treeVars, selected, logicRan, openHandles,
                   outVars>>

\* Line 30: the selected command has no hook on its path to the root.
NoPreRun ==
    /\ pc = "dispatched"
    /\ HookFor(selected) = "none"
    /\ pc' = "ready"
    /\ UNCHANGED <<inputVars, plugin, treeVars, selected, bridgeVars, logicRan,
                   openHandles, result, outVars>>

\* Lines 125-130: the metadata subcommand encodes its record to os.Stdout.
MetadataRunE ==
    /\ pc = "ready"
    /\ selected = "metadata"
    /\ stdout' = Append(stdout, MetadataOutput)
    /\ result' = Ok
    /\ pc' = "returned"
    /\ UNCHANGED <<inputVars, plugin, treeVars, selected, bridgeVars, logicRan,
                   openHandles, errOut, osStderr, exit>>

\* Line 30: the plugin's own command logic runs; each dial through the
\* helper of line 88 opens a connection handle on a new subprocess.
PluginRunE ==
    /\ pc = "ready"
    /\ selected = "plugin"
    /\ \E r \in LogicResults, d \in 0..MaxDials :
        /\ clients > 0 \/ d = 0
        /\ openHandles' = openHandles + d
        /\ result' = r
    /\ logicRan' = TRUE
    /\ pc' = "returned"
    /\ UNCHANGED <<inputVars, plugin, treeVars, selected, bridgeVars, outVars>>

\* Line 30: no subcommand was named: the root prints its help or reports
\* the unknown command.
RootRun ==
    /\ pc = "ready"
    /\ selected = "root"
    /\ \E r \in {Ok} \cup DispatchErrors : result' = r
    /\ pc' = "returned"
    /\ UNCHANGED <<inputVars, plugin, treeVars, selected, bridgeVars, logicRan,
                   openHandles, outVars>>

\* Lines 43-57: Run prints for the outcome and the process exits.
MapResult ==
    /\ pc = "returned"
    /\ errOut' = errOut \o ErrWrites(result)
    /\ exit' = <<ExitCode(result)>>
    /\ pc' = "exited"
    /\ UNCHANGED <<inputVars, plugin, treeVars, selected, bridgeVars, logicRan,
                   openHandles, result, stdout, osStderr>>

Next ==
    \/ NewDockerCli
    \/ Assemble
    \/ HandleGlobalFlags
    \/ SetShort
    \/ PersistentPreRunE
    \/ NoPreRun
    \/ MetadataRunE
    \/ PluginRunE
    \/ RootRun
    \/ MapResult

Spec == Init /\ [][Next]_vars

\* ------------------------------------------------------------- claims

\* The tokens of args strictly before the first token equal to name
\* (all of args when none is), stated without the loop.
PrefixBeforeFirst(args, name) ==
    LET occ == {j \in 1..Len(args) : args[j] = name}
        first == IF occ = {} THEN Len(args) + 1
                 ELSE CHOOSE j \in occ : \A l \in occ : j <= l
    IN  SubSeq(args, 1, first - 1)

\* The initializer has resolved a helper in this run.
HelperResolved == Len(helperCalls) > 0

\* The metadata subcommand has written its document.
MetadataWritten == selected = "metadata" /\ pc \in {"returned", "exited"}

\* The ShortDescription of the document the metadata subcommand wrote.
EmittedShort == Field(stdout[1], "ShortDescription")

\* C1: the flag list handed to the connection helper is the tokens of the
\* argument vector strictly before the first token equal to the plugin
\* name (all of them when no token equals it), in order, followed by
\* "system", "dial-stdio"; the argument vector itself is left as it was.
C1_FlagsArePrefixBeforeName ==
    /\ osArgs = argv
    /\ \A i \in 1..Len(helperCalls) :
        helperCalls[i].flags =
            PrefixBeforeFirst(argv, plugin.name) \o <<"system", "dial-stdio">>

C1_Witness ==
    /\ HelperResolved
    /\ argv = <<"--config", "/tmp/c", "myplugin">>
    /\ plugin.name = "myplugin"
    /\ helperCalls[1].flags = <<"--config", "/tmp/c", "system", "dial-stdio">>

\* C2: when the parser consumed the global flags G and dispatched to the
\* plugin on the token equal to its name that follows G, the flag list
\* handed to the helper is G followed by "system", "dial-stdio", also
\* when a value token inside G equals the plugin name.
C2_FlagsEqualParsedGlobalFlags ==
    (/\ HelperResolved
     /\ selected = "plugin"
     /\ argv[Len(GlobalFlags(argv)) + 1] = plugin.name)
    => helperCalls[1].flags = GlobalFlags(argv) \o <<"system", "dial-stdio">>

\* The exit code the claim C3 gives for an outcome of runPlugin.
C3_Mapped(r, code) ==
    /\ r.kind = "ok" => code = 0
    /\ r.kind = "status" => code = (IF r.code = 0 THEN 1 ELSE r.code)
    /\ r.kind = "other" => code = 1

\* C3 as stated: success exits 0, a structured failure exits with its code
\* and with 1 for code 0, any other error exits 1, and the exit code of a
\* structured failure is always at least 1.
C3_ExitCodeAtLeastOne ==
    (pc = "exited" /\ result.kind # "none")
    => /\ C3_Mapped(result, exit[1])
       /\ result.kind = "status" => exit[1] >= 1

\* C3 as amended: success exits 0, a structured failure exits with its code
\* and with 1 for code 0, any other error exits 1; the exit code of a
\* structured failure is never 0, and is at least 1 when the carried code
\* is not negative.
C3_ExitCodeNeverZero ==
    (pc = "exited" /\ result.kind # "none")
    => /\ C3_Mapped(result, exit[1])
       /\ result.kind = "status" => exit[1] # 0
       /\ (result.kind = "status" /\ result.code >= 0) => exit[1] >= 1

C3_Witness ==
    /\ pc = "exited"
    /\ result = StatusError("", 0)
    /\ exit = <<1>>

\* C4: nothing is written to the error stream before Run maps the outcome;
\* then a structured failure with a non-empty message writes exactly that
\* message, one with an empty message writes nothing, any other error
\* writes exactly its text, and success writes nothing; message "M" with
\* code 3 writes "M" and exits 3.
C4_ErrorStreamWrites ==
    /\ pc # "exited" => errOut = <<>>
    /\ (pc = "exited" /\ result.kind = "status" /\ result.msg # "")
        => errOut = <<result.msg>>
    /\ (pc = "exited" /\ result.kind = "status" /\ result.msg = "")
        => errOut = <<>>
    /\ (pc = "exited" /\ result.kind = "other") => errOut = <<result.msg>>
    /\ (pc = "exited" /\ result.kind \in {"ok", "none"}) => errOut = <<>>
    /\ (pc = "exited" /\ result = StatusError("M", 3))
        => (errOut = <<"M">> /\ exit = <<3>>)

C4_Witness ==
    /\ pc = "exited"
    /\ result = StatusError("M", 3)
    /\ errOut = <<"M">>
    /\ exit = <<3>>

\* C5: when the metadata subcommand is the selected command the client
\* initializer is never invoked: no helper is resolved, no client is
\* constructed, no handle is opened; the initializer runs only when the
\* plugin's own command is the one executed.
C5_MetadataNeverInitializes ==
    /\ selected = "metadata"
        => (initCalls = 0 /\ helperCalls = <<>> /\ clients = 0 /\ openHandles = 0)
    /\ initCalls > 0 => selected = "plugin"

C5_Witness ==
    /\ selected = "metadata"
    /\ pc = "exited"
    /\ Len(stdout) = 1

C7_HandlesReleasedAtExit == pc = "exited" => openHandles = 0

\* C8 as stated: with an empty supplied short description the emitted
\* ShortDescription is the plugin command's short description as it is
\* when the metadata operation is invoked.
C8_ShortReflectsInvocation ==
    (MetadataWritten /\ suppliedMeta.ShortDescription = "")
    => EmittedShort = plugin.Short

\* C8 as amended: with an empty supplied short description the emitted
\* ShortDescription is the plugin command's short description as it was
\* when the command tree was assembled; a non-empty supplied one is
\* emitted unchanged; the caller's record is never mutated.
C8_ShortFixedAtAssembly ==
    /\ callerMeta = suppliedMeta
    /\ MetadataWritten
        => EmittedShort = (IF suppliedMeta.ShortDescription # ""
                           THEN suppliedMeta.ShortDescription
                           ELSE shortAtAssembly[1])

C8_Witness ==
    /\ MetadataWritten
    /\ suppliedMeta.ShortDescription = ""
    /\ shortAtAssembly = <<"short">>
    /\ plugin.Short = "changed"
    /\ EmittedShort = "short"

\* What C9 says of a metadata run apart from the emitted description:
\* success, exactly one newline-terminated document on standard output,
\* nothing on either error stream, no helper, client or handle.
C9_QuietSuccess ==
    /\ result = Ok
    /\ Len(stdout) = 1
    /\ stdout[1].newline
    /\ Field(stdout[1], "Vendor") = suppliedMeta.Vendor
    /\ errOut = <<>>
    /\ osStderr = <<>>
    /\ helperCalls = <<>> /\ clients = 0 /\ openHandles = 0
    /\ pc = "exited" => exit = <<0>>

C10_ReexecCommandFromEnvironment ==
    \A i \in 1..Len(helperCalls) :
        LET call == helperCalls[i]
            n == Len(call.flags)
        IN  /\ (reexecEnv = <<>> \/ reexecEnv = <<"">>) => call.cmd = "docker"
            /\ (reexecEnv # <<>> /\ reexecEnv # <<"">>) => call.cmd = reexecEnv[1]
            /\ n >= 2
            /\ SubSeq(call.flags, n - 1, n) = <<"system", "dial-stdio">>
            /\ n - 2 <= Len(argv)
            /\ SubSeq(call.flags, 1, n - 2) = SubSeq(argv, 1, n - 2)

C10_Witness ==
    /\ HelperResolved
    /\ reexecEnv = <<"/opt/wrapper">>
    /\ helperCalls[1].cmd = "/opt/wrapper"
    /\ helperCalls[1].flags = <<"-D", "system", "dial-stdio">>

====
